---- MODULE Spec2Model ----
(***************************************************************************)
(* Model of the ESP32 firmware sketch 4wd.ino: one-time setup() followed   *)
(* by the service loop() that dispatches HTTP requests to the handlers.    *)
(* Control positions follow the statements of the sketch; the four motor   *)
(* pins change one digitalWrite at a time.                                 *)
(***************************************************************************)
EXTENDS Integers, Sequences, FiniteSets, TLC

\* ---------------------------------------------------------------- bounds
\* Requests the network layer holds for the server at one time.
MaxPending == 1

\* --------------------------------------------------------- pin constants
IN1 == 26
IN2 == 27
IN3 == 14
IN4 == 12
LOW == 0
HIGH == 1

MotorPins == {IN1, IN2, IN3, IN4}
Levels == {LOW, HIGH}

\* Echo pulse widths pulseIn can report (microseconds); 0 is its timeout.
EchoWidths == {0, 1176, 1177}
\* The timeout handed to pulseIn: no width above it is ever reported.
PulseTimeout == 30000
\* Distances are kept in 1/1000 cm: duration * 0.034 / 2 is duration * 17.
MilliCmPerMicro == 17
MaxDistance == 20000

RoutePaths == {"/", "/data", "/forward", "/backward", "/left", "/right",
               "/stop", "/enableAuto", "/disableAuto"}
MovePaths == {"/forward", "/backward", "/left", "/right", "/stop"}
ModePaths == {"/enableAuto", "/disableAuto"}
\* A path no route is registered for.
UnknownPath == "/nope"
Paths == RoutePaths \cup {UnknownPath}
\* Who issued a request: the browser dashboard or the autonomous host.
Sources == {"web", "host"}
Requests == [path : Paths, src : Sources]
NoReq == [path |-> "none", src |-> "none"]
NoJson == [distance |-> 0, ir |-> "", motion |-> "", temperature |-> "",
           humidity |-> "", flame |-> "", autonomous |-> ""]
NoResp == [code |-> 0, type |-> "", location |-> "", json |-> NoJson]
\* What the DHT driver hands back: a number, or NaN after a failed read.
DhtReadings == {"nan", "25.00"}

VARIABLES
  pc,              \* control position in setup() / loop() / a handler
  wr,              \* digitalWrite calls done in the drive function running
  pins,            \* output level of IN1..IN4
  autonomousMode,  \* the global flag
  wifi,            \* WiFi.status(): "down" | "up"
  routes,          \* paths registered with server.on
  pending,         \* requests waiting at the network layer
  cur,             \* request the server is handling
  resp,            \* response sent in this loop iteration
  hist             \* history: what was requested so far

vars == <<pc, wr, pins, autonomousMode, wifi, routes, pending, cur, resp,
          hist>>

\* ------------------------------------------------------- motor functions
\* A write of HIGH that flips the pin instead of setting it.
digitalWrite_toggle(p, pin, val) ==
  [p EXCEPT ![pin] = IF val = HIGH THEN 1 - p[pin] ELSE val]
digitalWrite(p, pin, val) == [p EXCEPT ![pin] = val]

\* forward() raising IN2 before it lowers IN1.
forwardWrites_reordered == << <<IN2, HIGH>>, <<IN1, LOW>>, <<IN3, LOW>>, <<IN4, HIGH>> >>
forwardWrites  == << <<IN1, LOW>>,  <<IN2, HIGH>>, <<IN3, LOW>>,  <<IN4, HIGH>> >>
backwardWrites == << <<IN1, HIGH>>, <<IN2, LOW>>,  <<IN3, HIGH>>, <<IN4, LOW>> >>
\* left() with the second motor's two writes exchanged.
leftWrites_swapped == << <<IN1, LOW>>, <<IN2, HIGH>>, <<IN3, LOW>>, <<IN4, HIGH>> >>
leftWrites     == << <<IN1, LOW>>,  <<IN2, HIGH>>, <<IN3, HIGH>>, <<IN4, LOW>> >>
rightWrites    == << <<IN1, HIGH>>, <<IN2, LOW>>,  <<IN3, LOW>>,  <<IN4, HIGH>> >>
stopCarWrites  == << <<IN1, LOW>>,  <<IN2, LOW>>,  <<IN3, LOW>>,  <<IN4, LOW>> >>

\* The pin state after the first k digitalWrite calls of a drive function.
RECURSIVE ApplyWrites(_, _, _)
ApplyWrites(p, ws, k) ==
  IF k = 0 THEN p
  ELSE digitalWrite(ApplyWrites(p, ws, k - 1), ws[k][1], ws[k][2])

forward(p)  == ApplyWrites(p, forwardWrites, Len(forwardWrites))
backward(p) == ApplyWrites(p, backwardWrites, Len(backwardWrites))
left(p)     == ApplyWrites(p, leftWrites, Len(leftWrites))
right(p)    == ApplyWrites(p, rightWrites, Len(rightWrites))
stopCar(p)  == ApplyWrites(p, stopCarWrites, Len(stopCarWrites))

\* One digitalWrite of the running drive function; its last one returns to
\* position `after`.
DriveStep(ws, after) ==
  /\ wr < Len(ws)
  /\ pins' = digitalWrite(pins, ws[wr + 1][1], ws[wr + 1][2])
  /\ IF wr + 1 = Len(ws)
       THEN wr' = 0 /\ pc' = after
       ELSE wr' = wr + 1 /\ pc' = pc

\* ------------------------------------------------------------- sensors
\* getDistance() for an echo width w. The globals duration and distance are
\* assigned before they are read in every call, so no value of theirs
\* survives a call: the result depends on w alone.
\* getDistance() without its early return on a timed-out echo.
getDistance_noSentinel(w) ==
  IF w * MilliCmPerMicro > MaxDistance THEN MaxDistance
  ELSE w * MilliCmPerMicro

getDistance(w) ==
  IF w = 0 THEN MaxDistance
  ELSE IF w * MilliCmPerMicro > MaxDistance THEN MaxDistance
  ELSE w * MilliCmPerMicro

\* String(float): two decimal places, rounded; the value in 1/100.
StringOfFloat(d) == (d + 5) \div 10

\* --------------------------------------------------------------- history
Kind(path) ==
  IF path = "/enableAuto" THEN "enable"
  ELSE IF path = "/disableAuto" THEN "disable"
  ELSE "other"

\* hist after request r is taken up while the flag is `mode`.
Record(h, r, mode) ==
  [lastMove |-> IF r.path \in MovePaths THEN r.path ELSE h.lastMove,
   lastMode |-> IF r.path = "/enableAuto" THEN TRUE
                ELSE IF r.path = "/disableAuto" THEN FALSE
                ELSE h.lastMode,
   prevKind |-> h.thisKind,
   prevMode |-> h.thisMode,
   thisKind |-> Kind(r.path),
   thisMode |-> mode]

\* ------------------------------------------------------------------ Init
Init ==
  /\ pc = "setup"
  /\ wr = 0
  /\ pins \in [MotorPins -> Levels]
  /\ autonomousMode = FALSE
  /\ wifi = "down"
  /\ routes = {}
  /\ pending = <<>>
  /\ cur = NoReq
  /\ resp = NoResp
  /\ hist = [lastMove |-> "/stop", lastMode |-> FALSE, prevKind |-> "none",
             prevMode |-> FALSE, thisKind |-> "none", thisMode |-> FALSE]

\* ----------------------------------------------------------------- setup
\* Serial.begin and the pinMode calls, up to the call of stopCar().
setup_pinMode ==
  /\ pc = "setup"
  /\ pc' = "setup_stopCar"
  /\ UNCHANGED <<wr, pins, autonomousMode, wifi, routes, pending, cur, resp,
                 hist>>

\* setup() without its stopCar() call.
setup_stopCar_skipped ==
  /\ pc = "setup_stopCar"
  /\ pc' = "setup_sensors"
  /\ UNCHANGED <<wr, pins, autonomousMode, wifi, routes, pending, cur, resp,
                 hist>>

setup_stopCar ==
  /\ pc = "setup_stopCar"
  /\ DriveStep(stopCarWrites, "setup_sensors")
  /\ UNCHANGED <<autonomousMode, wifi, routes, pending, cur, resp, hist>>

\* dht.begin, Wire.begin, mpu.begin: on failure the endless delay loop,
\* otherwise WiFi.begin.
setup_sensors ==
  /\ pc = "setup_sensors"
  /\ \E mpuFound \in BOOLEAN :
       pc' = IF mpuFound THEN "setup_wifi" ELSE "halt"
  /\ UNCHANGED <<wr, pins, autonomousMode, wifi, routes, pending, cur, resp,
                 hist>>

\* The failure branch with a single delay instead of the endless loop.
setup_halt_once ==
  /\ pc = "halt"
  /\ pc' = "setup_wifi"
  /\ UNCHANGED <<wr, pins, autonomousMode, wifi, routes, pending, cur, resp,
                 hist>>

\* while (1) delay(10);
setup_halt ==
  /\ pc = "halt"
  /\ UNCHANGED vars

\* The wait loop giving up after one check.
setup_wifi_giveUp ==
  /\ pc = "setup_wifi"
  /\ pc' = "setup_routes"
  /\ UNCHANGED <<wr, pins, autonomousMode, wifi, routes, pending, cur, resp,
                 hist>>

\* while (WiFi.status() != WL_CONNECTED) { delay(500); ... }
setup_wifi ==
  /\ pc = "setup_wifi"
  /\ pc' = IF wifi = "up" THEN "setup_routes" ELSE "setup_wifi"
  /\ UNCHANGED <<wr, pins, autonomousMode, wifi, routes, pending, cur, resp,
                 hist>>

\* ArduinoOTA.begin, the nine server.on calls, server.begin.
setup_routes ==
  /\ pc = "setup_routes"
  /\ routes' = RoutePaths
  /\ pc' = "loop_handleClient"
  /\ UNCHANGED <<wr, pins, autonomousMode, wifi, pending, cur, resp, hist>>

\* ------------------------------------------------------------------ loop
LoopPcs == {"loop_handleClient", "handler", "redirect", "loop_ota"}

\* handleClient() that accepts a waiting client but never runs its handler.
handleClient_lossy ==
  /\ pc = "loop_handleClient"
  /\ pc' = "loop_ota"
  /\ pending' = IF pending = <<>> THEN pending ELSE Tail(pending)
  /\ UNCHANGED <<wr, pins, autonomousMode, wifi, routes, cur, resp, hist>>

\* handleClient() that also runs while a handler is still executing.
handleClient_reentrant ==
  /\ pc \in {"loop_handleClient", "handler"}
  /\ \/ /\ pending = <<>>
        /\ pc = "loop_handleClient"
        /\ pc' = "loop_ota"
        /\ UNCHANGED <<pending, cur, hist>>
     \/ /\ pending # <<>>
        /\ cur' = Head(pending)
        /\ pending' = Tail(pending)
        /\ hist' = Record(hist, Head(pending), autonomousMode)
        /\ pc' = "handler"
  /\ UNCHANGED <<wr, pins, autonomousMode, wifi, routes, resp>>

\* server.handleClient(): no client waiting, or one request taken up and
\* routed to its handler.
handleClient ==
  /\ pc = "loop_handleClient"
  /\ \/ /\ pending = <<>>
        /\ pc' = "loop_ota"
        /\ UNCHANGED <<pending, cur, hist>>
     \/ /\ pending # <<>>
        /\ cur' = Head(pending)
        /\ pending' = Tail(pending)
        /\ hist' = Record(hist, Head(pending), autonomousMode)
        /\ pc' = "handler"
  /\ UNCHANGED <<wr, pins, autonomousMode, wifi, routes, resp>>

\* server.sendHeader("Location", "/"); server.send(303);
Redirect ==
  /\ pc = "redirect"
  /\ resp' = [code |-> 303, type |-> "", location |-> "/", json |-> NoJson]
  /\ pc' = "loop_ota"
  /\ UNCHANGED <<wr, pins, autonomousMode, wifi, routes, pending, cur, hist>>

Routed(path) == pc \in {"handler", "redirect"} /\ cur.path = path /\ path \in routes

MoveHandler(path, ws) ==
  /\ Routed(path)
  /\ \/ /\ pc = "handler"
        /\ DriveStep(ws, "redirect")
        /\ UNCHANGED <<autonomousMode, wifi, routes, pending, cur, resp, hist>>
     \/ Redirect

handleForward  == MoveHandler("/forward", forwardWrites)
handleBackward == MoveHandler("/backward", backwardWrites)
handleLeft     == MoveHandler("/left", leftWrites)
\* handleRight calling left().
handleRight_left == MoveHandler("/right", leftWrites)
handleRight    == MoveHandler("/right", rightWrites)
handleStop     == MoveHandler("/stop", stopCarWrites)

ModeHandler(path, flag) ==
  /\ Routed(path)
  /\ \/ /\ pc = "handler"
        /\ autonomousMode' = flag
        /\ pc' = "redirect"
        /\ UNCHANGED <<wr, pins, wifi, routes, pending, cur, resp, hist>>
     \/ Redirect

\* /enableAuto flipping the flag instead of setting it.
handleEnableAuto_flip == ModeHandler("/enableAuto", ~autonomousMode)
handleEnableAuto  == ModeHandler("/enableAuto", TRUE)

\* /disableAuto setting the flag like /enableAuto.
handleDisableAuto_true == ModeHandler("/disableAuto", TRUE)
\* /disableAuto that also stops the motors.
handleDisableAuto_stop ==
  /\ Routed("/disableAuto")
  /\ \/ /\ pc = "handler"
        /\ autonomousMode' = FALSE
        /\ pins' = stopCar(pins)
        /\ pc' = "redirect"
        /\ UNCHANGED <<wr, wifi, routes, pending, cur, resp, hist>>
     \/ Redirect
handleDisableAuto == ModeHandler("/disableAuto", FALSE)

\* The JSON record with the PIR pin read active-low like the other two.
DataJson_pirActiveLow(w, irVal, flameVal, pirVal, temp, hum, mode) ==
  [distance    |-> StringOfFloat(getDistance(w)),
   ir          |-> IF irVal = 0 THEN "Object Detected" ELSE "Clear",
   motion      |-> IF pirVal = 0 THEN "Motion Detected" ELSE "No Motion",
   temperature |-> temp,
   humidity    |-> hum,
   flame       |-> IF flameVal = 0 THEN "Flame Detected" ELSE "No Flame",
   autonomous  |-> IF mode THEN "ENABLED" ELSE "DISABLED"]

\* The JSON record of handleData for the values it read.
DataJson(w, irVal, flameVal, pirVal, temp, hum, mode) ==
  [distance    |-> StringOfFloat(getDistance(w)),
   ir          |-> IF irVal = 0 THEN "Object Detected" ELSE "Clear",
   motion      |-> IF pirVal = 1 THEN "Motion Detected" ELSE "No Motion",
   temperature |-> temp,
   humidity    |-> hum,
   flame       |-> IF flameVal = 0 THEN "Flame Detected" ELSE "No Flame",
   autonomous  |-> IF mode THEN "ENABLED" ELSE "DISABLED"]

\* handleData reacting to what it read: stopCar() when flameVal is 0
\* (withFlame) or when irVal is 0 (otherwise).
DataReacting(withFlame) ==
  /\ Routed("/data")
  /\ pc = "handler"
  /\ \E w \in EchoWidths, irVal \in Levels, flameVal \in Levels,
        pirVal \in Levels, dht \in DhtReadings :
       /\ resp' = [code |-> 200, type |-> "application/json", location |-> "",
                   json |-> DataJson(w, irVal, flameVal, pirVal, dht, dht,
                                     autonomousMode)]
       /\ pins' = IF (IF withFlame THEN flameVal ELSE irVal) = 0
                    THEN stopCar(pins) ELSE pins
  /\ pc' = "loop_ota"
  /\ UNCHANGED <<wr, autonomousMode, wifi, routes, pending, cur, hist>>
handleData_flameStop == DataReacting(TRUE)
handleData_irStop == DataReacting(FALSE)

\* handleData whose echo wait has no timeout: without an echo it never
\* returns.
handleData_noTimeout ==
  /\ Routed("/data")
  /\ pc = "handler"
  /\ \E w \in EchoWidths, irVal \in Levels, flameVal \in Levels,
        pirVal \in Levels, dht \in DhtReadings :
       IF w = 0
         THEN pc' = "pulseIn" /\ resp' = resp
         ELSE /\ resp' = [code |-> 200, type |-> "application/json",
                          location |-> "",
                          json |-> DataJson(w, irVal, flameVal, pirVal, dht,
                                            dht, autonomousMode)]
              /\ pc' = "loop_ota"
  /\ UNCHANGED <<wr, pins, autonomousMode, wifi, routes, pending, cur, hist>>

handleData ==
  /\ Routed("/data")
  /\ pc = "handler"
  /\ \E w \in EchoWidths, irVal \in Levels, flameVal \in Levels,
        pirVal \in Levels, dht \in DhtReadings :
       resp' = [code |-> 200, type |-> "application/json", location |-> "",
                json |-> DataJson(w, irVal, flameVal, pirVal, dht, dht,
                                  autonomousMode)]
  /\ pc' = "loop_ota"
  /\ UNCHANGED <<wr, pins, autonomousMode, wifi, routes, pending, cur, hist>>

handleRoot ==
  /\ Routed("/")
  /\ pc = "handler"
  /\ resp' = [code |-> 200, type |-> "text/html", location |-> "",
              json |-> NoJson]
  /\ pc' = "loop_ota"
  /\ UNCHANGED <<wr, pins, autonomousMode, wifi, routes, pending, cur, hist>>

\* Unmatched paths handed to stopCar() before the not-found reply.
notFound_stop ==
  /\ pc = "handler"
  /\ cur.path \notin routes
  /\ pins' = stopCar(pins)
  /\ resp' = [code |-> 404, type |-> "text/plain", location |-> "",
              json |-> NoJson]
  /\ pc' = "loop_ota"
  /\ UNCHANGED <<wr, autonomousMode, wifi, routes, pending, cur, hist>>

\* No route matches: the server's own not-found reply.
notFound ==
  /\ pc = "handler"
  /\ cur.path \notin routes
  /\ resp' = [code |-> 404, type |-> "text/plain", location |-> "",
              json |-> NoJson]
  /\ pc' = "loop_ota"
  /\ UNCHANGED <<wr, pins, autonomousMode, wifi, routes, pending, cur, hist>>

\* ArduinoOTA.handle(); the iteration ends and its connection is closed.
otaHandle ==
  /\ pc = "loop_ota"
  /\ pc' = "loop_handleClient"
  /\ cur' = NoReq
  /\ resp' = NoResp
  /\ UNCHANGED <<wr, pins, autonomousMode, wifi, routes, pending, hist>>

\* ----------------------------------------------------------- environment
\* The access point accepts the station once WiFi.begin has been called.
NetworkJoin ==
  /\ pc \in LoopPcs \cup {"setup_wifi", "setup_routes"}
  /\ wifi = "down"
  /\ wifi' = "up"
  /\ UNCHANGED <<pc, wr, pins, autonomousMode, routes, pending, cur, resp,
                 hist>>

\* The station loses the access point again. After setup nothing reads
\* WiFi.status(): a later loss only keeps requests from arriving, which
\* Arrive leaves open anyway, so the status is followed while setup reads it.
NetworkDrop ==
  /\ pc \in {"setup_wifi", "setup_routes"}
  /\ wifi = "up"
  /\ wifi' = "down"
  /\ UNCHANGED <<pc, wr, pins, autonomousMode, routes, pending, cur, resp,
                 hist>>

\* A client's request, one of `reqs`, reaches the listening server.
ArriveFrom(reqs) ==
  /\ pc \in LoopPcs
  /\ wifi = "up"
  /\ Len(pending) < MaxPending
  /\ \E r \in reqs : pending' = Append(pending, r)
  /\ UNCHANGED <<pc, wr, pins, autonomousMode, wifi, routes, cur, resp, hist>>

Arrive == ArriveFrom(Requests)
\* The sketch never reads who sent a request; for the progress properties
\* one sender is enough.
ArriveWeb == ArriveFrom({r \in Requests : r.src = "web"})

Next ==
  \/ setup_pinMode \/ setup_stopCar \/ setup_sensors \/ setup_halt
  \/ setup_wifi \/ setup_routes
  \/ handleClient \/ handleRoot \/ handleData
  \/ handleForward \/ handleBackward \/ handleLeft \/ handleRight
  \/ handleStop \/ handleEnableAuto \/ handleDisableAuto \/ notFound
  \/ otaHandle
  \/ NetworkJoin \/ NetworkDrop \/ Arrive

Spec == Init /\ [][Next]_vars

\* The statements of the sketch; the processor always executes the next one.
\* The network and the clients are under no obligation.
Program ==
  \/ setup_pinMode \/ setup_stopCar \/ setup_sensors \/ setup_halt
  \/ setup_wifi \/ setup_routes
  \/ handleClient \/ handleRoot \/ handleData
  \/ handleForward \/ handleBackward \/ handleLeft \/ handleRight
  \/ handleStop \/ handleEnableAuto \/ handleDisableAuto \/ notFound
  \/ otaHandle

NextLive == Program \/ NetworkJoin \/ NetworkDrop \/ ArriveWeb

FairSpec == Init /\ [][NextLive]_vars /\ WF_vars(Program)

\* ================================================================ claims
PinTuple(p) == <<p[IN1], p[IN2], p[IN3], p[IN4]>>

\* The truth table of the actuator driver, as (IN1, IN2, IN3, IN4).
Row(path) ==
  CASE path = "/forward"  -> <<LOW, HIGH, LOW, HIGH>>
    [] path = "/backward" -> <<HIGH, LOW, HIGH, LOW>>
    [] path = "/left"     -> <<LOW, HIGH, HIGH, LOW>>
    [] path = "/right"    -> <<HIGH, LOW, LOW, HIGH>>
    [] path = "/stop"     -> <<LOW, LOW, LOW, LOW>>

ModeWord(flag) == IF flag THEN "ENABLED" ELSE "DISABLED"

\* No drive function is between its first and its last digitalWrite.
Settled == pc \notin {"setup", "setup_stopCar", "handler"}
IsData == resp.type = "application/json"

\* C1: last command wins. Whenever no drive function is running, the four
\* outputs are the truth-table row of the most recent movement request
\* (Stop's row before any), whatever the mode was when it was served, and a
\* /data response reports the most recently commanded mode.
C1_LastCommandWins ==
  /\ Settled => PinTuple(pins) = Row(hist.lastMove)
  /\ IsData => resp.json.autonomous = ModeWord(hist.lastMode)

\* C1 witness: /data answered after /left was the last movement request and
\* autonomous mode the last commanded mode.
C1_Witness ==
  /\ pc = "loop_ota" /\ cur.path = "/data" /\ IsData
  /\ hist.lastMove = "/left" /\ hist.lastMode
  /\ PinTuple(pins) = Row("/left")
  /\ resp.json.autonomous = "ENABLED"

\* C2: every drive function, from every prior output state, writes all four
\* outputs and leaves exactly its truth-table row; Stop leaves all four low.
\* The first conjunct is about the functions alone, on all 16 prior states,
\* and is evaluated in the initial states; the others are the handlers' and
\* setup's runs.
C2_TruthTable ==
  /\ pc = "setup" => \A p \in [MotorPins -> Levels] :
       /\ PinTuple(forward(p)) = Row("/forward")
       /\ PinTuple(backward(p)) = Row("/backward")
       /\ PinTuple(left(p)) = Row("/left")
       /\ PinTuple(right(p)) = Row("/right")
       /\ PinTuple(stopCar(p)) = Row("/stop")
  /\ (pc = "redirect" /\ cur.path \in MovePaths)
       => PinTuple(pins) = Row(cur.path)
  /\ pc = "setup_sensors" => PinTuple(pins) = <<LOW, LOW, LOW, LOW>>

\* C2 witness: handleLeft has finished its writes and is about to redirect.
C2_Witness ==
  /\ pc = "redirect" /\ cur.path = "/left"
  /\ PinTuple(pins) = <<LOW, HIGH, HIGH, LOW>>

\* C3: while the mode is Manual, a movement request issued by the
\* autonomous host is not honored: the motor outputs stay unchanged.
C3_ModeGatesHost ==
  [][(pc = "handler" /\ cur.src = "host" /\ cur.path \in MovePaths
        /\ ~autonomousMode) => pins' = pins]_vars

\* C4: /enableAuto leaves the flag true and /disableAuto leaves it false,
\* whatever it was before (also when it already had that value), and a /data
\* request served right after reports ENABLED, resp. DISABLED.
C4_EnableDisable ==
  /\ (pc \in {"redirect", "loop_ota"} /\ cur.path = "/enableAuto")
       => autonomousMode
  /\ (pc \in {"redirect", "loop_ota"} /\ cur.path = "/disableAuto")
       => ~autonomousMode
  /\ (IsData /\ hist.prevKind = "enable") => resp.json.autonomous = "ENABLED"
  /\ (IsData /\ hist.prevKind = "disable")
       => resp.json.autonomous = "DISABLED"

\* C4 witness: /enableAuto served while the flag was already true.
C4_Witness ==
  /\ pc = "loop_ota" /\ cur.path = "/enableAuto"
  /\ hist.thisMode /\ autonomousMode

\* Two consecutive mode requests, one of each kind, have been served.
PairServed ==
  /\ pc = "loop_ota"
  /\ \/ hist.prevKind = "enable" /\ hist.thisKind = "disable"
     \/ hist.prevKind = "disable" /\ hist.thisKind = "enable"

\* C5 as stated: after enable-then-disable or disable-then-enable the flag
\* equals its value before the two requests, for every starting mode.
C5_PairIsNoOp == PairServed => autonomousMode = hist.prevMode

\* C5 amended: after the two requests the flag is what the second one sets
\* (false after enable-then-disable, true after disable-then-enable), so it
\* equals its value before the pair exactly when it started at that value.
C5_PairSetsSecond ==
  PairServed =>
    /\ autonomousMode = (hist.thisKind = "enable")
    /\ (autonomousMode = hist.prevMode)
         <=> (hist.prevMode = (hist.thisKind = "enable"))

\* C5 witness: enable then disable served from Autonomous: the flag ends
\* false, not at its starting value.
C5_Witness ==
  /\ PairServed /\ hist.prevKind = "enable" /\ hist.prevMode
  /\ ~autonomousMode

\* C6: a mode handler never changes a motor output, and a movement handler
\* never changes the mode flag.
C6_Orthogonal ==
  [][/\ (pc \in {"handler", "redirect"} /\ cur.path \in ModePaths)
         => pins' = pins
     /\ (pc \in {"handler", "redirect"} /\ cur.path \in MovePaths)
         => autonomousMode' = autonomousMode]_vars

\* C6 witness: /disableAuto served while driving forward in autonomous mode;
\* the outputs are still Forward's.
C6_Witness ==
  /\ pc = "loop_ota" /\ cur.path = "/disableAuto" /\ hist.thisMode
  /\ ~autonomousMode /\ PinTuple(pins) = Row("/forward")

\* C7: serving /data or / changes neither the mode flag nor a motor output,
\* whatever the sensors read.
C7_QueriesReadOnly ==
  [][(pc = "handler" /\ cur.path \in {"/", "/data"})
       => (autonomousMode' = autonomousMode /\ pins' = pins)]_vars

\* C7 witness: /data answered with the distance sentinel and a flame reading
\* while driving forward in autonomous mode.
C7_Witness ==
  /\ pc = "loop_ota" /\ cur.path = "/data" /\ IsData
  /\ resp.json.distance = StringOfFloat(MaxDistance)
  /\ resp.json.flame = "Flame Detected"
  /\ autonomousMode /\ PinTuple(pins) = Row("/forward")

\* C8: mode and outputs are determined by the requests served, never by a
\* sensor reading. hist.lastMode and hist.lastMove are computed from the
\* sequence of served requests alone, so two runs serving the same sequence
\* agree on them; after every request the flag and the outputs equal them.
\* The flag changes only in a step of the /enableAuto or /disableAuto
\* handler, the outputs only in a step of a drive function.
C8_SensorIndependent ==
  /\ [](pc # "handler" => autonomousMode = hist.lastMode)
  /\ [](Settled => PinTuple(pins) = Row(hist.lastMove))
  /\ [][/\ autonomousMode' # autonomousMode
            => (pc = "handler" /\ cur.path \in ModePaths)
        /\ pins' # pins
            => \/ pc = "setup_stopCar"
               \/ pc = "handler" /\ cur.path \in MovePaths]_vars

\* C8 witness: /data answered with an obstacle, motion and a flame reported
\* and a failed DHT read; the car still drives backward in autonomous mode.
C8_Witness ==
  /\ pc = "loop_ota" /\ cur.path = "/data" /\ IsData
  /\ resp.json.ir = "Object Detected"
  /\ resp.json.motion = "Motion Detected"
  /\ resp.json.flame = "Flame Detected"
  /\ resp.json.temperature = "nan"
  /\ autonomousMode /\ PinTuple(pins) = Row("/backward")

\* C9: fail-stop. Once mpu.begin has failed the process stays in the delay
\* loop: the network is never joined, no route is registered, no request is
\* taken up or answered, and flag and outputs never change.
C9_FailStop ==
  /\ [](pc = "halt" =>
          /\ wifi = "down" /\ routes = {}
          /\ pending = <<>> /\ cur = NoReq /\ resp = NoResp
          /\ hist.thisKind = "none")
  /\ [][pc = "halt" =>
          /\ pc' = "halt"
          /\ autonomousMode' = autonomousMode
          /\ pins' = pins]_vars

\* C9 witness: the delay loop after a failed mpu.begin.
C9_Witness == pc = "halt" /\ ~autonomousMode /\ routes = {}

\* No request has been taken up since setup applied Stop.
BeforeFirstRequest == Settled /\ hist.thisKind = "none"

\* C10: from the end of setup's stopCar() until the first request is taken
\* up (the network wait and the halt included) the mode is Manual and all
\* four outputs are low; the loop is first entered in that state.
C10_StartupState ==
  BeforeFirstRequest =>
    /\ ~autonomousMode
    /\ PinTuple(pins) = <<LOW, LOW, LOW, LOW>>

\* C10 witness: the first loop iteration with a request waiting.
C10_Witness ==
  /\ pc = "loop_handleClient" /\ BeforeFirstRequest
  /\ pending # <<>>

\* C11: applying a drive command twice in a row gives the same outputs as
\* applying it once: for each of the five functions and all 16 prior states
\* f(f(p)) = f(p), and a movement handler that finds the outputs already at
\* its row (the command was just applied) changes none of them at any of its
\* writes.
C11_Idempotent ==
  /\ [](pc = "setup" => \A p \in [MotorPins -> Levels] :
          /\ forward(forward(p)) = forward(p)
          /\ backward(backward(p)) = backward(p)
          /\ left(left(p)) = left(p)
          /\ right(right(p)) = right(p)
          /\ stopCar(stopCar(p)) = stopCar(p))
  /\ [][(pc = "handler" /\ cur.path \in MovePaths
           /\ PinTuple(pins) = Row(cur.path)) => pins' = pins]_vars

\* C11 witness: /left served again right after Left was applied: its first
\* write is done and the outputs are still Left's row.
C11_Witness ==
  /\ pc = "handler" /\ cur.path = "/left" /\ wr = 1
  /\ PinTuple(pins) = Row("/left")

\* C12: for every echo outcome getDistance() returns the sentinel 20.0 on a
\* timeout (width 0) and min(width * 0.034 / 2, 20.0) otherwise, so never
\* more than 20.0, exactly 20.0 for every raw distance above it, and 19.992
\* for 1176 us. Values are in 1/1000 cm; every width up to the pulseIn timeout
\* is tried in the initial states. A /data response never shows more than
\* 20.00.
C12_DistanceNormalized ==
  /\ pc = "setup" => \A w \in 0..PulseTimeout :
       /\ w = 0 => getDistance(w) = 20000
       /\ (w # 0 /\ (w * 34) \div 2 <= 20000)
            => getDistance(w) = (w * 34) \div 2
       /\ (w * 34) \div 2 > 20000 => getDistance(w) = 20000
       /\ getDistance(w) <= 20000
  /\ pc = "setup" => getDistance(1176) = 19992
  /\ IsData => resp.json.distance <= 2000

\* C12 witness: a /data response built from an echo of 1176 us, below the
\* cap (19.992, printed with two decimals).
C12_Witness == IsData /\ resp.json.distance = StringOfFloat(19992)

\* C14: in the /data record, for every combination of pin levels and mode,
\* ir is "Object Detected" iff the IR pin reads 0 (else "Clear"), motion is
\* "Motion Detected" iff the PIR pin reads 1 (else "No Motion"), flame is
\* "Flame Detected" iff the flame pin reads 0 (else "No Flame"), autonomous
\* is "ENABLED" iff the flag is true (else "DISABLED"); every response sent
\* carries the flag as it is at the time of the request.
C14_FieldMapping ==
  /\ pc = "setup" =>
       \A w \in EchoWidths, i \in Levels, f \in Levels, m \in Levels,
          t \in DhtReadings, a \in BOOLEAN :
         LET j == DataJson(w, i, f, m, t, t, a) IN
           /\ j.ir = (IF i = 0 THEN "Object Detected" ELSE "Clear")
           /\ j.motion = (IF m = 1 THEN "Motion Detected" ELSE "No Motion")
           /\ j.flame = (IF f = 0 THEN "Flame Detected" ELSE "No Flame")
           /\ j.autonomous = (IF a THEN "ENABLED" ELSE "DISABLED")
  /\ IsData =>
       /\ resp.json.ir \in {"Object Detected", "Clear"}
       /\ resp.json.motion \in {"Motion Detected", "No Motion"}
       /\ resp.json.flame \in {"Flame Detected", "No Flame"}
       /\ resp.json.autonomous = ModeWord(autonomousMode)

\* C14 witness: a /data response in Manual mode with the IR pin at 1, the PIR
\* pin at 1 and the flame pin at 1.
C14_Witness ==
  /\ IsData /\ ~autonomousMode
  /\ resp.json.ir = "Clear" /\ resp.json.motion = "Motion Detected"
  /\ resp.json.flame = "No Flame" /\ resp.json.autonomous = "DISABLED"

\* C17: whenever the flame pin reads 0 while the vehicle is moving, the
\* vehicle is stopped (all four outputs low) without a /stop request: after
\* a /data request that read a flame the outputs are all low.
C17_FlameStops ==
  (IsData /\ resp.json.flame = "Flame Detected")
    => PinTuple(pins) = <<LOW, LOW, LOW, LOW>>

Rows == {Row(path) : path \in MovePaths}
BothHigh12(p) == p[IN1] = HIGH /\ p[IN2] = HIGH
BothHigh34(p) == p[IN3] = HIGH /\ p[IN4] = HIGH

\* C19: handlers do not interleave: a request is taken up only when no
\* handler is executing, so whenever no drive function is between its writes
\* (from the end of setup's stopCar() on) the outputs are one of the five
\* truth-table rows and no motor has both direction inputs high.
C19_AtomicRequests ==
  /\ [](Settled =>
          /\ PinTuple(pins) \in Rows
          /\ ~BothHigh12(pins) /\ ~BothHigh34(pins))
  /\ [][cur' # cur =>
          \/ pc = "loop_handleClient" /\ cur = NoReq
          \/ pc = "loop_ota" /\ cur' = NoReq]_vars

\* C19 witness: /backward has been served to completion while a second
\* request waited at the network layer.
C19_Witness ==
  /\ pc = "loop_ota" /\ cur.path = "/backward" /\ pending # <<>>
  /\ PinTuple(pins) = Row("/backward")

Applying == pc = "handler" /\ cur.path \in MovePaths

\* C20 as stated: while a drive command is being applied, at every point
\* between its four writes neither motor has both direction inputs high.
C20_NeverBothHigh == Applying => (~BothHigh12(pins) /\ ~BothHigh34(pins))

\* C20 amended: while a drive command is being applied, IN1 and IN2 are both
\* high only right after the first write of Backward or Right (IN1 raised
\* while IN2 is still high from Forward or Left), and IN3 and IN4 only right
\* after the third write of Backward or Left (IN3 raised while IN4 is still
\* high from Forward or Right); at no other intermediate point, and never
\* while Forward or Stop is applied.
C20_BothHighOnlyOnReversal ==
  Applying =>
    /\ BothHigh12(pins) => (wr = 1 /\ cur.path \in {"/backward", "/right"})
    /\ BothHigh34(pins) => (wr = 3 /\ cur.path \in {"/backward", "/left"})

\* C20 witness: Backward applied after Forward: IN1 is written high, IN2 is
\* still high.
C20_Witness ==
  /\ Applying /\ cur.path = "/backward" /\ wr = 1
  /\ PinTuple(pins) = <<HIGH, HIGH, LOW, HIGH>>

\* C13: a /data request always terminates: whatever the echo does (no echo
\* at all included) the handler sends its response, exactly one in the
\* iteration, and the loop then goes on to look for the next request.
C13_DataTerminates ==
  /\ (pc = "handler" /\ cur.path = "/data") ~> (pc = "loop_ota" /\ IsData)
  /\ IsData ~> (pc = "loop_handleClient")
  /\ [][(resp' # resp /\ resp' # NoResp) => resp = NoResp]_vars

\* C13 witness: /data answered with the sentinel distance while a later
\* request is waiting.
C13_Witness ==
  /\ pc = "loop_ota" /\ cur.path = "/data" /\ IsData
  /\ resp.json.distance = StringOfFloat(MaxDistance)
  /\ pending # <<>>

\* C15: the network join is a blocking retry. The wait loop is left only by
\* a check that finds the status connected, and a check that finds it not
\* connected stays in the loop; routes exist and requests are taken up only
\* in the service loop, which is entered only through that exit. If from
\* some point on the network stays connected, a process waiting in the loop
\* reaches the service loop.
C15_BlockingJoin ==
  /\ [][(pc = "setup_wifi" /\ wifi = "down") => pc' = "setup_wifi"]_vars
  /\ [][(pc = "setup_wifi" /\ pc' # pc)
          => (wifi = "up" /\ pc' = "setup_routes")]_vars
  /\ [][(pc' \in LoopPcs /\ pc \notin LoopPcs) => pc = "setup_routes"]_vars
  /\ []((routes # {} \/ cur # NoReq \/ pending # <<>>) => pc \in LoopPcs)
  /\ <>[](wifi = "up")
       => [](pc = "setup_wifi" => <>(pc = "loop_handleClient"))

\* C15 witness: the service loop reached after the join, no request yet.
C15_Witness ==
  /\ pc = "loop_handleClient" /\ wifi = "up" /\ routes = RoutePaths
  /\ hist.thisKind = "none" /\ pending = <<>>

\* C16: a request for a path without a route is answered by the server
\* itself: neither the mode flag nor a motor output changes, control returns
\* to the loop, and the loop goes on to look for the next request.
C16_UnknownPath ==
  /\ [][(pc = "handler" /\ cur.path \notin RoutePaths)
          => /\ autonomousMode' = autonomousMode
             /\ pins' = pins
             /\ pc' \in {"handler", "loop_ota"}]_vars
  /\ [](cur.path = UnknownPath => resp.type # "application/json")
  /\ (pc = "handler" /\ cur.path = UnknownPath)
       ~> (pc = "loop_handleClient")

\* C16 witness: an unknown path answered while driving forward in autonomous
\* mode, with the next request already waiting.
C16_Witness ==
  /\ pc = "loop_ota" /\ cur.path = UnknownPath /\ resp.code = 404
  /\ autonomousMode /\ PinTuple(pins) = Row("/forward")
  /\ pending # <<>>

Applied ==
  /\ cur.path \in MovePaths => PinTuple(pins) = Row(cur.path)
  /\ cur.path = "/enableAuto" => autonomousMode
  /\ cur.path = "/disableAuto" => ~autonomousMode

====
